---- MODULE Spec2Model ----
(***************************************************************************)
(* Monitor quorum health checking of the Ceph operator                     *)
(* (pkg/operator/ceph/cluster/mon/health.go): the periodic loop            *)
(* HealthChecker.Check, one cycle checkHealth, the dispatch failMon, and   *)
(* the two remediations failoverMon and removeMon.                         *)
(*                                                                         *)
(* Daemon names are the naturals 0..MaxName; the daemon created for the    *)
(* identity i is named i.  Collaborators (the Kubernetes API, the Ceph     *)
(* command, the config store) answer nondeterministically: every operation *)
(* that calls one is a set of outcomes, one for each place it can fail.    *)
(***************************************************************************)
EXTENDS Integers, Sequences, FiniteSets, TLC

\* ---- bounds of the model --------------------------------------------------
MaxName == 2          \* daemon names and identities are 0..MaxName
MaxCount == 3         \* spec.Mon.Count ranges over 1..MaxCount
MaxTicks == 1         \* the clock advances at most this many times
MaxGeneration == 1    \* Status.ObservedGeneration ranges over 0..MaxGeneration
MaxReplicas == 1      \* Status.UpdatedReplicas and ReadyReplicas are 0..MaxReplicas
MaxMinor == 1         \* CephVersion.Minor ranges over 0..MaxMinor
MaxPatch == 1         \* CephVersion.Patch ranges over 0..MaxPatch

\* ---- program constants -----------------------------------------------------
MonOutTimeout == 600

\* the clock advances by just the out-timeout or by a little more
TimeSteps == {MonOutTimeout, MonOutTimeout + 1}

Names == 0..MaxName
Counts == 1..MaxCount
InitialMons == {0, 1}

VARIABLES
    clusterInfo,      \* c.clusterInfo.Monitors: names in the source of truth
    mapping,          \* c.mapping.Node: names with an assigned node
    maxMonID,         \* c.maxMonID
    monTimeoutList,   \* c.monTimeoutList: name -> time first seen out of quorum
    specCount,        \* c.spec.Mon.Count
    hostNetwork,      \* c.HostNetwork
    deployments,      \* mon deployments that exist in the namespace
    services,         \* mon services that exist in the namespace
    savedConfig,      \* membership last persisted by saveMonConfig
    connConfig,       \* membership last written by WriteConnectionConfig
    monMap,           \* monitors in the live Ceph monitor map
    quorum,           \* monitors of the monitor map that are in quorum
    now,              \* wall clock
    ticks,            \* how often the clock has advanced
    lockHolder,       \* who holds the orchestration lock
    pc,               \* position of the goroutine running HealthChecker.Check
    stopCh,           \* TRUE once stopCh has been closed
    otherPc,          \* position of another goroutine that uses the lock
    last,             \* what the cycle in progress read, did and returns
    lastOp,           \* the last removeMon or failoverMon of SpecOps
    recorded,         \* identities ever put into clusterInfo by a provisioning
    started,          \* identities whose daemon was ever confirmed started
    phase,            \* position of a call of UpdateStatefulSetAndWait
    strategy,         \* Spec.UpdateStrategy.Type of the live statefulset
    live,             \* Status of the live statefulset
    original,         \* original.Status.ObservedGeneration, once fetched
    latest,           \* latest.Status of the last read of the poll
    attempt,          \* i, the counter of the polling loop
    stopCalls,        \* calls of verifyCallback("stop") so far
    stopErr,          \* what the last verifyCallback("stop") returned
    continueCalls,    \* calls of verifyCallback("continue") so far
    updateCalls,      \* calls of StatefulSets(namespace).Update(sts) so far
    getCalls,         \* reads of the polling loop so far
    slept,            \* seconds slept in the polling loop so far
    result,           \* what UpdateStatefulSetAndWait returns
    v,                \* the receiver of AtLeast
    other,            \* the argument of AtLeast
    third,            \* one more version, compared with both
    atLeast           \* the results of AtLeast on these versions

vars == <<clusterInfo, mapping, maxMonID, monTimeoutList, specCount, hostNetwork,
          deployments, services, savedConfig, connConfig, monMap, quorum, now,
          ticks, lockHolder, pc, stopCh, otherPc, last, lastOp, recorded, started,
          phase, strategy, live, original, latest, attempt, stopCalls, stopErr,
          continueCalls,
          updateCalls, getCalls, slept, result, v, other, third, atLeast>>

\* the state of the mon cluster, its health checker and the ghosts of both
monVars == <<clusterInfo, mapping, maxMonID, monTimeoutList, specCount, hostNetwork,
             deployments, services, savedConfig, connConfig, monMap, quorum, now,
             ticks, lockHolder, pc, stopCh, otherPc, last, lastOp, recorded, started>>

\* the state of a call of UpdateStatefulSetAndWait and of the statefulset
updateVars == <<phase, strategy, live, original, latest, attempt, stopCalls, stopErr,
          continueCalls,
                updateCalls, getCalls, slept, result>>

\* the inputs and the results of the version comparison
versionVars == <<v, other, third, atLeast>>

\* what a health check reads and decides on
clusterVars == <<clusterInfo, maxMonID, monTimeoutList, monMap, quorum>>

\* the Kubernetes resources, the two config files and the node assignment
resourceVars == <<mapping, deployments, services, savedConfig, connConfig>>

\* ---- helpers ---------------------------------------------------------------
\* every order in which the status can list the monitors of the monitor map
Orders(S) ==
    {s \in [1..Cardinality(S) -> S] : \A i, j \in 1..Cardinality(S) : s[i] = s[j] => i = j}

\* the fields of the Cluster object and of the cluster it manages
Cur ==
    [Monitors |-> clusterInfo, mapping |-> mapping, maxMonID |-> maxMonID,
     monTimeoutList |-> monTimeoutList, hostNetwork |-> hostNetwork,
     deployments |-> deployments, services |-> services,
     savedConfig |-> savedConfig, connConfig |-> connConfig,
     monMap |-> monMap, quorum |-> quorum]

\* newMonConfig(id).DaemonName: one name for each identity
DaemonName(id) == id

\* Delete of a Kubernetes resource: an API error, or gone, or not found
DeleteResult(existing, name, apiFails) ==
    IF apiFails THEN "error"
    ELSE IF name \in existing THEN "ok" ELSE "notFound"

\* errors.IsNotFound(err)
IsNotFound(res) == res = "notFound"

\* ---- removeMon -------------------------------------------------------------
RemoveFaults == {"none", "deployment", "quorum", "service", "save", "write"}

\* mutant: a deletion that finds nothing aborts the removal
removeMon_NotFoundFatal(c, daemonName, fail) ==
    LET depRes == DeleteResult(c.deployments, daemonName, fail = "deployment")
        c1 == [c EXCEPT !.deployments = @ \ {daemonName}]
        c2 == [c1 EXCEPT !.monMap = @ \ {daemonName},
                         !.quorum = @ \ {daemonName},
                         !.Monitors = @ \ {daemonName},
                         !.mapping = @ \ {daemonName}]
        svcRes == DeleteResult(c2.services, daemonName, fail = "service")
        c3 == [c2 EXCEPT !.services = @ \ {daemonName}]
        c4 == [c3 EXCEPT !.savedConfig = c3.Monitors]
        c5 == [c4 EXCEPT !.connConfig = c4.Monitors]
    IN  IF depRes # "ok"
        THEN [c |-> c, err |-> "deployment", depRes |-> depRes, svcRes |-> "skipped"]
        ELSE IF fail = "quorum"
        THEN [c |-> c1, err |-> "quorum", depRes |-> depRes, svcRes |-> "skipped"]
        ELSE IF svcRes # "ok"
        THEN [c |-> c2, err |-> "service", depRes |-> depRes, svcRes |-> svcRes]
        ELSE IF fail = "save"
        THEN [c |-> c3, err |-> "save", depRes |-> depRes, svcRes |-> svcRes]
        ELSE IF fail = "write"
        THEN [c |-> c4, err |-> "write", depRes |-> depRes, svcRes |-> svcRes]
        ELSE [c |-> c5, err |-> "nil", depRes |-> depRes, svcRes |-> svcRes]

\* mutant: a failure to remove the mon from quorum is passed over
removeMon_QuorumNotFatal(c, daemonName, fail) ==
    LET depRes == DeleteResult(c.deployments, daemonName, fail = "deployment")
        c1 == [c EXCEPT !.deployments = @ \ {daemonName}]
        c2 == [c1 EXCEPT !.monMap = IF fail = "quorum" THEN @ ELSE @ \ {daemonName},
                         !.quorum = IF fail = "quorum" THEN @ ELSE @ \ {daemonName},
                         !.Monitors = @ \ {daemonName},
                         !.mapping = @ \ {daemonName}]
        svcRes == DeleteResult(c2.services, daemonName, fail = "service")
        c3 == [c2 EXCEPT !.services = @ \ {daemonName}]
        c4 == [c3 EXCEPT !.savedConfig = c3.Monitors]
        c5 == [c4 EXCEPT !.connConfig = c4.Monitors]
    IN  IF depRes # "ok" /\ ~IsNotFound(depRes)
        THEN [c |-> c, err |-> "deployment", depRes |-> depRes, svcRes |-> "skipped"]
        ELSE IF svcRes # "ok" /\ ~IsNotFound(svcRes)
        THEN [c |-> c2, err |-> "service", depRes |-> depRes, svcRes |-> svcRes]
        ELSE IF fail = "save"
        THEN [c |-> c3, err |-> "save", depRes |-> depRes, svcRes |-> svcRes]
        ELSE IF fail = "write"
        THEN [c |-> c4, err |-> "write", depRes |-> depRes, svcRes |-> svcRes]
        ELSE [c |-> c5, err |-> "nil", depRes |-> depRes, svcRes |-> svcRes]

\* mutant: the config files are written before the mon leaves the membership
removeMon_WriteBeforeMutate(c, daemonName, fail) ==
    LET depRes == DeleteResult(c.deployments, daemonName, fail = "deployment")
        c1 == [c EXCEPT !.deployments = @ \ {daemonName}]
        c2 == [c1 EXCEPT !.monMap = @ \ {daemonName},
                         !.quorum = @ \ {daemonName},
                         !.savedConfig = c1.Monitors,
                         !.connConfig = c1.Monitors]
        svcRes == DeleteResult(c2.services, daemonName, fail = "service")
        c3 == [c2 EXCEPT !.services = @ \ {daemonName}]
        c5 == [c3 EXCEPT !.Monitors = @ \ {daemonName},
                         !.mapping = @ \ {daemonName}]
    IN  IF depRes # "ok" /\ ~IsNotFound(depRes)
        THEN [c |-> c, err |-> "deployment", depRes |-> depRes, svcRes |-> "skipped"]
        ELSE IF fail = "quorum"
        THEN [c |-> c1, err |-> "quorum", depRes |-> depRes, svcRes |-> "skipped"]
        ELSE IF svcRes # "ok" /\ ~IsNotFound(svcRes)
        THEN [c |-> c2, err |-> "service", depRes |-> depRes, svcRes |-> svcRes]
        ELSE IF fail \in {"save", "write"}
        THEN [c |-> c3, err |-> fail, depRes |-> depRes, svcRes |-> svcRes]
        ELSE [c |-> c5, err |-> "nil", depRes |-> depRes, svcRes |-> svcRes]

\* removeMon(daemonName) when the collaborator named by fail fails
removeMon(c, daemonName, fail) ==
    LET depRes == DeleteResult(c.deployments, daemonName, fail = "deployment")
        c1 == [c EXCEPT !.deployments = @ \ {daemonName}]
        c2 == [c1 EXCEPT !.monMap = @ \ {daemonName},
                         !.quorum = @ \ {daemonName},
                         !.Monitors = @ \ {daemonName},
                         !.mapping = @ \ {daemonName}]
        svcRes == DeleteResult(c2.services, daemonName, fail = "service")
        c3 == [c2 EXCEPT !.services = @ \ {daemonName}]
        c4 == [c3 EXCEPT !.savedConfig = c3.Monitors]
        c5 == [c4 EXCEPT !.connConfig = c4.Monitors]
    IN  IF depRes # "ok" /\ ~IsNotFound(depRes)
        THEN [c |-> c, err |-> "deployment", depRes |-> depRes, svcRes |-> "skipped"]
        ELSE IF fail = "quorum"
        THEN [c |-> c1, err |-> "quorum", depRes |-> depRes, svcRes |-> "skipped"]
        ELSE IF svcRes # "ok" /\ ~IsNotFound(svcRes)
        THEN [c |-> c2, err |-> "service", depRes |-> depRes, svcRes |-> svcRes]
        ELSE IF fail = "save"
        THEN [c |-> c3, err |-> "save", depRes |-> depRes, svcRes |-> svcRes]
        ELSE IF fail = "write"
        THEN [c |-> c4, err |-> "write", depRes |-> depRes, svcRes |-> svcRes]
        ELSE [c |-> c5, err |-> "nil", depRes |-> depRes, svcRes |-> svcRes]

\* ---- failoverMon -----------------------------------------------------------
FailoverFaults == {"none", "assign", "endpoint", "start"}

\* assignMons: places the new mon on a node; in host network mode the fault
\* "endpoint" is a placement that left no entry in the assignment map
assignMons(c, m, fail) ==
    IF fail = "assign" THEN [c |-> c, err |-> "assign"]
    ELSE IF c.hostNetwork /\ fail = "endpoint" THEN [c |-> c, err |-> "nil"]
    ELSE [c |-> [c EXCEPT !.mapping = @ \cup {m}], err |-> "nil"]

\* startDeployments(mConf, true): creates the deployment and waits for the mon
startDeployments(c, m, fail) ==
    IF fail = "start"
    THEN [c |-> [c EXCEPT !.deployments = @ \cup {m}], err |-> "start"]
    ELSE [c |-> [c EXCEPT !.deployments = @ \cup {m},
                          !.monMap = @ \cup {m},
                          !.quorum = @ \cup {m}], err |-> "nil"]

\* mutant: the identity counter is incremented before the start is confirmed
failoverMon_EagerIncrement(c, name, fail, rfail) ==
    LET id == c.maxMonID + 1
        m == DaemonName(id)
        a == assignMons(c, m, fail)
        c1 == a.c
        c2 == IF c1.hostNetwork THEN c1 ELSE [c1 EXCEPT !.services = @ \cup {m}]
        c3 == [c2 EXCEPT !.Monitors = @ \cup {m}, !.maxMonID = @ + 1]
        s == startDeployments(c3, m, fail)
        r == removeMon(s.c, name, rfail)
        none == [alloc |-> {id}, recorded |-> {}, started |-> {}, removed |-> FALSE]
    IN  IF a.err # "nil"
        THEN [c |-> c, err |-> "assign"] @@ none
        ELSE IF c1.hostNetwork /\ m \notin c1.mapping
        THEN [c |-> c1, err |-> "endpoint"] @@ none
        ELSE IF ~c1.hostNetwork /\ fail = "endpoint"
        THEN [c |-> c1, err |-> "endpoint"] @@ none
        ELSE IF s.err # "nil"
        THEN [c |-> s.c, err |-> "start", alloc |-> {id}, recorded |-> {id},
              started |-> {}, removed |-> FALSE]
        ELSE [c |-> r.c, err |-> r.err, alloc |-> {id}, recorded |-> {id},
              started |-> {id}, removed |-> TRUE]

\* mutant: the old mon is removed before its replacement is provisioned
failoverMon_RemoveFirst(c, name, fail, rfail) ==
    LET id == c.maxMonID + 1
        m == DaemonName(id)
        r == removeMon(c, name, rfail)
        a == assignMons(r.c, m, fail)
        c1 == a.c
        c2 == IF c1.hostNetwork THEN c1 ELSE [c1 EXCEPT !.services = @ \cup {m}]
        c3 == [c2 EXCEPT !.Monitors = @ \cup {m}]
        s == startDeployments(c3, m, fail)
        c4 == [s.c EXCEPT !.maxMonID = @ + 1]
        none == [alloc |-> {id}, recorded |-> {}, started |-> {}, removed |-> TRUE]
    IN  IF r.err # "nil"
        THEN [c |-> r.c, err |-> r.err, alloc |-> {}, recorded |-> {}, started |-> {},
              removed |-> TRUE]
        ELSE IF a.err # "nil"
        THEN [c |-> r.c, err |-> "assign"] @@ none
        ELSE IF c1.hostNetwork /\ m \notin c1.mapping
        THEN [c |-> c1, err |-> "endpoint"] @@ none
        ELSE IF ~c1.hostNetwork /\ fail = "endpoint"
        THEN [c |-> c1, err |-> "endpoint"] @@ none
        ELSE IF s.err # "nil"
        THEN [c |-> s.c, err |-> "start", alloc |-> {id}, recorded |-> {id},
              started |-> {}, removed |-> TRUE]
        ELSE [c |-> c4, err |-> "nil", alloc |-> {id}, recorded |-> {id},
              started |-> {id}, removed |-> TRUE]

\* failoverMon(name) when the provisioning fails at fail and the removal of
\* the old mon fails at rfail
failoverMon(c, name, fail, rfail) ==
    LET id == c.maxMonID + 1
        m == DaemonName(id)
        a == assignMons(c, m, fail)
        c1 == a.c
        c2 == IF c1.hostNetwork THEN c1 ELSE [c1 EXCEPT !.services = @ \cup {m}]
        c3 == [c2 EXCEPT !.Monitors = @ \cup {m}]
        s == startDeployments(c3, m, fail)
        c4 == [s.c EXCEPT !.maxMonID = @ + 1]
        r == removeMon(c4, name, rfail)
        none == [alloc |-> {id}, recorded |-> {}, started |-> {}, removed |-> FALSE]
    IN  IF a.err # "nil"
        THEN [c |-> c, err |-> "assign"] @@ none
        ELSE IF c1.hostNetwork /\ m \notin c1.mapping
        THEN [c |-> c1, err |-> "endpoint"] @@ none
        ELSE IF ~c1.hostNetwork /\ fail = "endpoint"
        THEN [c |-> c1, err |-> "endpoint"] @@ none
        ELSE IF s.err # "nil"
        THEN [c |-> s.c, err |-> "start", alloc |-> {id}, recorded |-> {id},
              started |-> {}, removed |-> FALSE]
        ELSE [c |-> r.c, err |-> r.err, alloc |-> {id}, recorded |-> {id},
              started |-> {id}, removed |-> TRUE]

\* ---- startMons -------------------------------------------------------------
\* one mon provisioned and confirmed started by the scale-up
provisionMon(c) ==
    LET m == DaemonName(c.maxMonID + 1)
    IN  [c EXCEPT !.mapping = @ \cup {m},
                  !.services = IF c.hostNetwork THEN @ ELSE @ \cup {m},
                  !.Monitors = @ \cup {m},
                  !.deployments = @ \cup {m},
                  !.monMap = @ \cup {m},
                  !.quorum = @ \cup {m},
                  !.maxMonID = @ + 1]

RECURSIVE provisionMons(_, _)
provisionMons(c, k) == IF k = 0 THEN c ELSE provisionMons(provisionMon(c), k - 1)

\* startMons(targetCount) when only the first okCount new mons start
startMons(c, targetCount, okCount) ==
    LET need == IF targetCount > Cardinality(c.Monitors)
                THEN targetCount - Cardinality(c.Monitors) ELSE 0
        k == IF okCount < need THEN okCount ELSE need
        c1 == provisionMons(c, k)
        ids == {c.maxMonID + i : i \in 1..k}
        tried == {c.maxMonID + i : i \in 1..(IF k < need THEN k + 1 ELSE k)}
    IN  IF k < need
        THEN [c |-> c1, err |-> "startMons", alloc |-> tried, recorded |-> ids,
              started |-> ids]
        ELSE [c |-> [c1 EXCEPT !.savedConfig = c1.Monitors, !.connConfig = c1.Monitors],
              err |-> "nil", alloc |-> ids, recorded |-> ids, started |-> ids]

\* ---- checkHealth -----------------------------------------------------------
NoEntry == -1

\* one remediation call of a cycle and how it ended
Act(op, name, via, r) ==
    [op |-> op, name |-> name, via |-> via, ok |-> (r.err = "nil"),
     alloc |-> r.alloc, recorded |-> r.recorded, started |-> r.started]

NoIds == [alloc |-> {}, recorded |-> {}, started |-> {}]

\* A cycle does not follow the Kubernetes resources, the config files and the
\* node assignment: what a remediation did to them is dropped from its outcome
\* (see SpecOps for them)
Tracked(c) ==
    [c EXCEPT !.mapping = mapping, !.deployments = deployments,
              !.services = services, !.savedConfig = savedConfig,
              !.connConfig = connConfig]

\* c.removeMon(name) called by a cycle: one outcome for each place it can fail
callRemoveMon(c, name) ==
    {[r EXCEPT !.c = Tracked(r.c)] : r \in {removeMon(c, name, f) : f \in RemoveFaults}}

\* c.failoverMon(name) called by a cycle
callFailoverMon(c, name) ==
    {[r EXCEPT !.c = Tracked(r.c)] :
        r \in {failoverMon(c, name, f, rf) : f \in FailoverFaults, rf \in RemoveFaults}}

\* c.startMons(desiredMonCount) called by a cycle
callStartMons(c, targetCount) ==
    {[r EXCEPT !.c = Tracked(r.c)] :
        r \in {startMons(c, targetCount, k) : k \in 0..targetCount}}

\* monInQuorum(mon, status.Quorum)
monInQuorum(mon, q) == mon \in q

\* mutant: the floor is tested against 1 instead of 2
CannotReduce_OffByOne(desiredMonCount, monCount) == desiredMonCount < 1 /\ monCount = 2

\* the guard of the scale-down: "cannot reduce mon quorum size from 2 to 1"
CannotReduce(desiredMonCount, monCount) == desiredMonCount < 2 /\ monCount = 2

\* mutant: the error of the remediation becomes the error of the cycle
failMon_ReturnsError(x, monCount, desiredMonCount, name, via) ==
    IF monCount > desiredMonCount
    THEN {[x EXCEPT !.c = r.c, !.err = IF r.err = "nil" THEN "nil" ELSE "removeMon",
                    !.acts = Append(@, Act("removeMon", name, via, r @@ NoIds))] :
             r \in callRemoveMon(x.c, name)}
    ELSE {[x EXCEPT !.c = r.c, !.err = IF r.err = "nil" THEN "nil" ELSE "failoverMon",
                    !.acts = Append(@, Act("failoverMon", name, via, r))] :
             r \in callFailoverMon(x.c, name)}

\* failMon(monCount, desiredMonCount, name): every way the dispatch can end;
\* the error of the remediation is logged, not returned
failMon(x, monCount, desiredMonCount, name, via) ==
    IF monCount > desiredMonCount
    THEN {[x EXCEPT !.c = r.c,
                    !.acts = Append(@, Act("removeMon", name, via, r @@ NoIds))] :
             r \in callRemoveMon(x.c, name)}
    ELSE {[x EXCEPT !.c = r.c,
                    !.acts = Append(@, Act("failoverMon", name, via, r))] :
             r \in callFailoverMon(x.c, name)}

\* mutant: a mon is failed over as soon as its entry is as old as the timeout
checkTimeout_AtTimeout(x, mon, inQuorum, status, desiredMonCount, t) ==
    IF inQuorum
    THEN {[x EXCEPT !.c.monTimeoutList[mon] = NoEntry]}
    ELSE LET since == IF x.c.monTimeoutList[mon] = NoEntry THEN t
                      ELSE x.c.monTimeoutList[mon]
             x1 == [x EXCEPT !.allMonsInQuorum = FALSE,
                             !.c.monTimeoutList[mon] = since]
         IN  IF t - since < MonOutTimeout
             THEN {x1}
             ELSE {[z EXCEPT !.ret = TRUE, !.path = "timeout"] :
                      z \in failMon(x1, Len(status.mons), desiredMonCount, mon, "timeout")}

\* lines 117-145: the timeout bookkeeping for one reported mon
checkTimeout(x, mon, inQuorum, status, desiredMonCount, t) ==
    IF inQuorum
    THEN {[x EXCEPT !.c.monTimeoutList[mon] = NoEntry]}
    ELSE LET since == IF x.c.monTimeoutList[mon] = NoEntry THEN t
                      ELSE x.c.monTimeoutList[mon]
             x1 == [x EXCEPT !.allMonsInQuorum = FALSE,
                             !.c.monTimeoutList[mon] = since]
         IN  IF t - since <= MonOutTimeout
             THEN {x1}
             ELSE {[z EXCEPT !.ret = TRUE, !.path = "timeout"] :
                      z \in failMon(x1, Len(status.mons), desiredMonCount, mon, "timeout")}

\* mutant: the scan removes an unknown mon only when more mons are in quorum
\* than desired
scanMon_QuorumCount(x, mon, status, desiredMonCount, t) ==
    LET inQuorum == monInQuorum(mon, status.quorum)
        found ==
            IF mon \in x.monsNotFound
            THEN {[x EXCEPT !.monsNotFound = @ \ {mon}]}
            ELSE IF inQuorum /\ Cardinality(status.quorum) > desiredMonCount
            THEN {[x EXCEPT !.c = r.c,
                            !.acts = Append(@, Act("removeMon", mon, "scan", r @@ NoIds))] :
                     r \in callRemoveMon(x.c, mon)}
            ELSE {x}
    IN  UNION {checkTimeout(y, mon, inQuorum, status, desiredMonCount, t) : y \in found}

\* lines 95-146: the body of the scan loop for one reported mon
scanMon(x, mon, status, desiredMonCount, t) ==
    LET inQuorum == monInQuorum(mon, status.quorum)
        found ==
            IF mon \in x.monsNotFound
            THEN {[x EXCEPT !.monsNotFound = @ \ {mon}]}
            ELSE IF inQuorum /\ Len(status.mons) > desiredMonCount
            THEN {[x EXCEPT !.c = r.c,
                            !.acts = Append(@, Act("removeMon", mon, "scan", r @@ NoIds))] :
                     r \in callRemoveMon(x.c, mon)}
            ELSE {x}
    IN  UNION {checkTimeout(y, mon, inQuorum, status, desiredMonCount, t) : y \in found}

RECURSIVE scan(_, _, _, _, _)
scan(xs, status, desiredMonCount, t, i) ==
    IF i > Len(status.mons) THEN xs
    ELSE scan(UNION {IF x.ret THEN {x}
                     ELSE scanMon(x, status.mons[i], status, desiredMonCount, t) : x \in xs},
              status, desiredMonCount, t, i + 1)

\* mutant: the scale-up is looked at before the members missing from the status
afterScan_ScaleUpFirst(x, status, desiredMonCount) ==
    IF x.ret THEN {x}
    ELSE IF Len(status.mons) < desiredMonCount
    THEN {[x EXCEPT !.c = r.c, !.ret = TRUE, !.path = "scaleUp",
                    !.err = IF r.err = "nil" THEN "nil" ELSE "startMons",
                    !.acts = Append(@, Act("startMons", -1, "scaleUp", r))] :
             r \in callStartMons(x.c, desiredMonCount)}
    ELSE IF x.monsNotFound # {}
    THEN UNION {{[z EXCEPT !.ret = TRUE, !.path = "notFound"] :
                    z \in failMon(x, Cardinality(x.c.Monitors), desiredMonCount, mon, "notFound")} :
                mon \in x.monsNotFound}
    ELSE IF x.allMonsInQuorum /\ Len(status.mons) > desiredMonCount
    THEN IF CannotReduce(desiredMonCount, Len(status.mons))
         THEN {[x EXCEPT !.ret = TRUE, !.path = "floor"]}
         ELSE {[x EXCEPT !.c = r.c, !.ret = TRUE, !.path = "scaleDown",
                         !.err = IF r.err = "nil" THEN "nil" ELSE "removeMon",
                         !.acts = Append(@, Act("removeMon", status.mons[1], "scaleDown",
                                                r @@ NoIds))] :
                  r \in callRemoveMon(x.c, status.mons[1])}
    ELSE {[x EXCEPT !.ret = TRUE, !.path = "noop"]}

\* mutant: the scale-up counts the mons in quorum, not the mons of the map
afterScan_QuorumCount(x, status, desiredMonCount) ==
    IF x.ret THEN {x}
    ELSE IF x.monsNotFound # {}
    THEN UNION {{[z EXCEPT !.ret = TRUE, !.path = "notFound"] :
                    z \in failMon(x, Cardinality(x.c.Monitors), desiredMonCount, mon, "notFound")} :
                mon \in x.monsNotFound}
    ELSE IF Cardinality(status.quorum) < desiredMonCount
    THEN {[x EXCEPT !.c = r.c, !.ret = TRUE, !.path = "scaleUp",
                    !.err = IF r.err = "nil" THEN "nil" ELSE "startMons",
                    !.acts = Append(@, Act("startMons", -1, "scaleUp", r))] :
             r \in callStartMons(x.c, desiredMonCount)}
    ELSE IF x.allMonsInQuorum /\ Len(status.mons) > desiredMonCount
    THEN IF CannotReduce(desiredMonCount, Len(status.mons))
         THEN {[x EXCEPT !.ret = TRUE, !.path = "floor"]}
         ELSE {[x EXCEPT !.c = r.c, !.ret = TRUE, !.path = "scaleDown",
                         !.err = IF r.err = "nil" THEN "nil" ELSE "removeMon",
                         !.acts = Append(@, Act("removeMon", status.mons[1], "scaleDown",
                                                r @@ NoIds))] :
                  r \in callRemoveMon(x.c, status.mons[1])}
    ELSE {[x EXCEPT !.ret = TRUE, !.path = "noop"]}

\* lines 148-173: what follows the scan
afterScan(x, status, desiredMonCount) ==
    IF x.ret THEN {x}
    ELSE IF x.monsNotFound # {}
    THEN UNION {{[z EXCEPT !.ret = TRUE, !.path = "notFound"] :
                    z \in failMon(x, Cardinality(x.c.Monitors), desiredMonCount, mon, "notFound")} :
                mon \in x.monsNotFound}
    ELSE IF Len(status.mons) < desiredMonCount
    THEN {[x EXCEPT !.c = r.c, !.ret = TRUE, !.path = "scaleUp",
                    !.err = IF r.err = "nil" THEN "nil" ELSE "startMons",
                    !.acts = Append(@, Act("startMons", -1, "scaleUp", r))] :
             r \in callStartMons(x.c, desiredMonCount)}
    ELSE IF x.allMonsInQuorum /\ Len(status.mons) > desiredMonCount
    THEN IF CannotReduce(desiredMonCount, Len(status.mons))
         THEN {[x EXCEPT !.ret = TRUE, !.path = "floor"]}
         ELSE {[x EXCEPT !.c = r.c, !.ret = TRUE, !.path = "scaleDown",
                         !.err = IF r.err = "nil" THEN "nil" ELSE "removeMon",
                         !.acts = Append(@, Act("removeMon", status.mons[1], "scaleDown",
                                                r @@ NoIds))] :
                  r \in callRemoveMon(x.c, status.mons[1])}
    ELSE {[x EXCEPT !.ret = TRUE, !.path = "noop"]}

\* checkHealth between taking and releasing the lock: every way one cycle can
\* end on the cluster c with spec.Mon.Count = count at time t
checkHealth(c, count, t) ==
    LET desiredMonCount == count
        x0(status) == [c |-> c, status |-> status, desired |-> desiredMonCount,
                       monsNotFound |-> c.Monitors, allMonsInQuorum |-> TRUE,
                       ret |-> FALSE, path |-> "none", err |-> "nil", acts |-> <<>>]
        failed == [x0([mons |-> <<>>, quorum |-> {}]) EXCEPT
                      !.ret = TRUE, !.path = "status", !.err = "status"]
    IN  {failed} \cup
        UNION {UNION {afterScan(x, [mons |-> mons, quorum |-> c.quorum], desiredMonCount) :
                         x \in scan({x0([mons |-> mons, quorum |-> c.quorum])},
                                    [mons |-> mons, quorum |-> c.quorum],
                                    desiredMonCount, t, 1)} :
               mons \in Orders(c.monMap)}

\* ---- UpdateStatefulSetAndWait ----------------------------------------------
\* util.Retry(5, 60*time.Second, ...): the retries of verifyCallback("stop")
maxRetries == 5

\* the polling loop: sleepTime := 2, attempts := 30
sleepTime == 2
attempts == 30

RollingUpdateStatefulSetStrategyType == "RollingUpdate"
Strategies == {RollingUpdateStatefulSetStrategyType, "OnDelete"}

\* apps.StatefulSetStatus, the fields the poll reads
Statuses ==
    [ObservedGeneration : 0..MaxGeneration,
     UpdatedReplicas : 0..MaxReplicas,
     ReadyReplicas : 0..MaxReplicas]

NoStatus == [ObservedGeneration |-> 0, UpdatedReplicas |-> 0, ReadyReplicas |-> 0]
NoGeneration == -1

\* what the call returns: the statefulset or nil, and the error
NoResult == [sts |-> FALSE, err |-> "none"]
Failure(e) == [sts |-> FALSE, err |-> e]
Success == [sts |-> TRUE, err |-> "nil"]

\* lines 132-133: the new statefulset is detected and runs updated pods
UpdateComplete(l, orig) ==
    /\ l.ObservedGeneration # orig
    /\ l.UpdatedReplicas > 0
    /\ l.ReadyReplicas > 0

\* no call of UpdateStatefulSetAndWait under way, a statefulset at rest
InitCall ==
    /\ phase = "fetch"
    /\ original = NoGeneration
    /\ latest = NoStatus
    /\ attempt = 0
    /\ stopCalls = 0
    /\ stopErr = "none"
    /\ continueCalls = 0
    /\ updateCalls = 0
    /\ getCalls = 0
    /\ slept = 0
    /\ result = NoResult

IdleUpdate ==
    /\ strategy = RollingUpdateStatefulSetStrategyType
    /\ live = NoStatus
    /\ InitCall

\* mutant: the update strategy of the live statefulset is not looked at
GetOriginal_AnyStrategy ==
    /\ phase = "fetch"
    /\ \E ok \in BOOLEAN :
          IF ~ok
          THEN phase' = "failed" /\ result' = Failure("get") /\ original' = original
          ELSE phase' = "verifyStop" /\ result' = result
               /\ original' = live.ObservedGeneration
    /\ UNCHANGED <<monVars, versionVars, stopErr, strategy, live, latest, attempt, stopCalls,
                   continueCalls, updateCalls, getCalls, slept>>

\* lines 93-101: Get of the live statefulset and the test of its strategy
GetOriginal ==
    /\ phase = "fetch"
    /\ \E ok \in BOOLEAN :
          IF ~ok
          THEN phase' = "failed" /\ result' = Failure("get") /\ original' = original
          ELSE IF strategy # RollingUpdateStatefulSetStrategyType
          THEN phase' = "failed" /\ result' = Failure("strategy")
               /\ original' = live.ObservedGeneration
          ELSE phase' = "verifyStop" /\ result' = result
               /\ original' = live.ObservedGeneration
    /\ UNCHANGED <<monVars, versionVars, stopErr, strategy, live, latest, attempt, stopCalls,
                   continueCalls, updateCalls, getCalls, slept>>

\* mutant: the update goes on when the retries are used up
VerifyStop_GoesOn ==
    /\ phase = "verifyStop"
    /\ stopCalls' = stopCalls + 1
    /\ \E ok \in BOOLEAN :
          /\ stopErr' = IF ok THEN "nil" ELSE "error"
          /\ IF ok \/ stopCalls + 1 > maxRetries
             THEN phase' = "apply" /\ result' = result
             ELSE phase' = phase /\ result' = result
    /\ UNCHANGED <<monVars, versionVars, strategy, live, original, latest, attempt,
                   continueCalls, updateCalls, getCalls, slept>>

\* lines 104-110: one call of verifyCallback("stop") under util.Retry; a
\* failure is followed by the delay and the next call until the retries are
\* used up
VerifyStop ==
    /\ phase = "verifyStop"
    /\ stopCalls' = stopCalls + 1
    /\ \E ok \in BOOLEAN :
          /\ stopErr' = IF ok THEN "nil" ELSE "error"
          /\ IF ok
             THEN phase' = "apply" /\ result' = result
             ELSE IF stopCalls + 1 > maxRetries
             THEN phase' = "failed" /\ result' = Failure("verifyStop")
             ELSE phase' = phase /\ result' = result
    /\ UNCHANGED <<monVars, versionVars, strategy, live, original, latest, attempt,
                   continueCalls, updateCalls, getCalls, slept>>

\* lines 114-118: StatefulSets(namespace).Update(sts)
Update ==
    /\ phase = "apply"
    /\ updateCalls' = updateCalls + 1
    /\ \E ok \in BOOLEAN :
          IF ok
          THEN phase' = "poll" /\ result' = result
          ELSE phase' = "failed" /\ result' = Failure("update")
    /\ attempt' = 0
    /\ UNCHANGED <<monVars, versionVars, stopErr, strategy, live, original, latest, stopCalls,
                   continueCalls, getCalls, slept>>

\* mutant: the poll asks for the verification whatever it has read
PollGet_NoCondition ==
    /\ phase = "poll"
    /\ getCalls' = getCalls + 1
    /\ \E ok \in BOOLEAN :
          IF ~ok
          THEN phase' = "failed" /\ result' = Failure("get") /\ latest' = latest
          ELSE phase' = "verifyContinue" /\ result' = result /\ latest' = live
    /\ UNCHANGED <<monVars, versionVars, stopErr, strategy, live, original, attempt, stopCalls,
                   continueCalls, updateCalls, slept>>

\* lines 124-133: one read of the polling loop and the completion condition
PollGet ==
    /\ phase = "poll"
    /\ getCalls' = getCalls + 1
    /\ \E ok \in BOOLEAN :
          IF ~ok
          THEN phase' = "failed" /\ result' = Failure("get") /\ latest' = latest
          ELSE /\ latest' = live
               /\ result' = result
               /\ phase' = IF UpdateComplete(live, original) THEN "verifyContinue"
                           ELSE "sleep"
    /\ UNCHANGED <<monVars, versionVars, stopErr, strategy, live, original, attempt, stopCalls,
                   continueCalls, updateCalls, slept>>

\* lines 137-143: verifyCallback("continue") and the return of sts
VerifyContinue ==
    /\ phase = "verifyContinue"
    /\ continueCalls' = continueCalls + 1
    /\ \E ok \in BOOLEAN :
          IF ok
          THEN phase' = "done" /\ result' = Success
          ELSE phase' = "failed" /\ result' = Failure("verifyContinue")
    /\ UNCHANGED <<monVars, versionVars, stopErr, strategy, live, original, latest, attempt,
                   stopCalls, updateCalls, getCalls, slept>>

\* mutant: the loop gives up one attempt early
Sleep_OneShort ==
    /\ phase = "sleep"
    /\ slept' = slept + sleepTime
    /\ attempt' = attempt + 1
    /\ IF attempt + 1 < attempts - 1
       THEN phase' = "poll" /\ result' = result
       ELSE phase' = "failed" /\ result' = Failure("gaveUp")
    /\ UNCHANGED <<monVars, versionVars, stopErr, strategy, live, original, latest, stopCalls,
                   continueCalls, updateCalls, getCalls>>

\* lines 146-150 and the loop header of line 123: the sleep, i++, and either
\* the next attempt or the "gave up waiting" error
Sleep ==
    /\ phase = "sleep"
    /\ slept' = slept + sleepTime
    /\ attempt' = attempt + 1
    /\ IF attempt + 1 < attempts
       THEN phase' = "poll" /\ result' = result
       ELSE phase' = "failed" /\ result' = Failure("gaveUp")
    /\ UNCHANGED <<monVars, versionVars, stopErr, strategy, live, original, latest, stopCalls,
                   continueCalls, updateCalls, getCalls>>

\* the statefulset controller, or anyone else, changes the status of the live
\* statefulset
Controller ==
    /\ phase \notin {"done", "failed"}
    /\ \E s \in Statuses :
          /\ s # live
          /\ s.ObservedGeneration >= live.ObservedGeneration
          /\ live' = s
    /\ UNCHANGED <<monVars, versionVars, stopErr, phase, strategy, original, latest, attempt,
                   stopCalls, continueCalls, updateCalls, getCalls, slept, result>>

\* ---- CephVersion -----------------------------------------------------------
CephVersion(major, minor, patch) == [Major |-> major, Minor |-> minor, Patch |-> patch]

Luminous == CephVersion(12, 0, 0)
Mimic == CephVersion(13, 0, 0)
Nautilus == CephVersion(14, 0, 0)

\* the versions compared: the named releases, one major below and one above,
\* with every minor and patch
Versions ==
    {CephVersion(major, minor, patch) :
        major \in (Luminous.Major - 1)..(Nautilus.Major + 1),
        minor \in 0..MaxMinor, patch \in 0..MaxPatch}

\* mutant: the minor decides between versions of one major
AtLeast_WithMinor(ver, oth) ==
    ver.Major > oth.Major \/ (ver.Major = oth.Major /\ ver.Minor >= oth.Minor)

\* func (v *CephVersion) AtLeast(other CephVersion) bool
AtLeast(ver, oth) == ver.Major >= oth.Major

NoCompare ==
    [done |-> FALSE, vo |-> FALSE, ov |-> FALSE, vv |-> FALSE, ot |-> FALSE, vt |-> FALSE]

IdleVersion ==
    /\ v = Luminous
    /\ other = Luminous
    /\ third = Luminous
    /\ atLeast = NoCompare

\* ---- the state machine -----------------------------------------------------
\* Spec: checkHealth called again and again on a cluster that changes between
\* the calls.  It follows what a health check reads and decides on: the
\* membership, the monitor map and its quorum, the timeouts and the identity
\* counter.  The Kubernetes resources, the config files and the node assignment
\* never steer a cycle (a deletion that finds nothing is a success); SpecOps
\* follows them through removeMon and failoverMon.  SpecLoop is the goroutine of
\* HealthChecker.Check next to another user of the orchestration lock.
NoCycle == [path |-> "none", err |-> "nil", first |-> -1, acts |-> <<>>, seen |-> {}]

NoOp == [op |-> "none", name |-> -1, fail |-> "none", rfail |-> "none", err |-> "nil",
         depRes |-> "skipped", svcRes |-> "skipped", started |-> FALSE,
         removed |-> FALSE, again |-> FALSE]

InitCluster ==
    /\ clusterInfo = InitialMons
    /\ mapping = InitialMons
    /\ maxMonID = 1
    /\ monTimeoutList = [n \in Names |-> NoEntry]
    /\ deployments = InitialMons
    /\ services = IF hostNetwork THEN {} ELSE InitialMons
    /\ savedConfig = InitialMons
    /\ connConfig = InitialMons
    /\ monMap = InitialMons
    /\ quorum = InitialMons
    /\ recorded = InitialMons
    /\ started = InitialMons

InitLoop ==
    /\ now = 0
    /\ ticks = 0
    /\ lockHolder = "none"
    /\ pc = "select"
    /\ stopCh = FALSE
    /\ otherPc = "idle"
    /\ last = NoCycle
    /\ lastOp = NoOp

Init ==
    /\ hostNetwork = FALSE
    /\ InitCluster
    /\ specCount \in Counts
    /\ InitLoop
    /\ IdleUpdate
    /\ IdleVersion

\* the identities a cycle allocates stay within the names of the model
WithinNames(x) ==
    \A i \in 1..Len(x.acts) : x.acts[i].alloc \subseteq Names

\* one run of the body of checkHealth, lines 71-173
RunCheckHealth ==
    \E x \in checkHealth(Cur, specCount, now) :
        /\ WithinNames(x)
        /\ clusterInfo' = x.c.Monitors
        /\ maxMonID' = x.c.maxMonID
        /\ monTimeoutList' = x.c.monTimeoutList
        /\ monMap' = x.c.monMap
        /\ quorum' = x.c.quorum
        /\ last' = [path |-> x.path, err |-> x.err,
                    first |-> IF Len(x.status.mons) > 0 THEN x.status.mons[1] ELSE -1,
                    acts |-> x.acts, seen |-> recorded]
        /\ recorded' = recorded \cup UNION {x.acts[i].recorded : i \in 1..Len(x.acts)}
        /\ started' = started \cup UNION {x.acts[i].started : i \in 1..Len(x.acts)}

\* c.checkHealth() from the lock taken to the lock released, nothing else
\* holding the lock
HealthCheck ==
    /\ pc = "select"
    /\ lockHolder = "none"
    /\ RunCheckHealth
    /\ UNCHANGED <<updateVars, versionVars, resourceVars, specCount, hostNetwork, now, ticks, lockHolder, pc, stopCh,
                   otherPc, lastOp>>

\* the user edits the mon count of the cluster CRD
SetCount ==
    /\ \E k \in Counts : k # specCount /\ specCount' = k
    /\ last' = NoCycle
    /\ UNCHANGED <<updateVars, versionVars, clusterVars, resourceVars, hostNetwork, now, ticks, lockHolder, pc, stopCh,
                   otherPc, lastOp, recorded, started>>

\* a monitor of the monitor map drops out of quorum
MonLeavesQuorum ==
    /\ \E n \in quorum : quorum' = quorum \ {n}
    /\ last' = NoCycle
    /\ UNCHANGED <<updateVars, versionVars, clusterInfo, maxMonID, monTimeoutList, monMap, resourceVars,
                   specCount, hostNetwork, now, ticks, lockHolder, pc, stopCh, otherPc,
                   lastOp, recorded, started>>

\* a monitor of the monitor map comes back into quorum
MonRejoinsQuorum ==
    /\ \E n \in monMap \ quorum : quorum' = quorum \cup {n}
    /\ last' = NoCycle
    /\ UNCHANGED <<updateVars, versionVars, clusterInfo, maxMonID, monTimeoutList, monMap, resourceVars,
                   specCount, hostNetwork, now, ticks, lockHolder, pc, stopCh, otherPc,
                   lastOp, recorded, started>>

\* a monitor the operator does not expect joins the monitor map and the quorum
MonJoinsMap ==
    /\ \E n \in Names \ monMap :
          /\ monMap' = monMap \cup {n}
          /\ quorum' = quorum \cup {n}
    /\ last' = NoCycle
    /\ UNCHANGED <<updateVars, versionVars, clusterInfo, maxMonID, monTimeoutList, resourceVars,
                   specCount, hostNetwork, now, ticks, lockHolder, pc, stopCh, otherPc,
                   lastOp, recorded, started>>

\* time passes
Tick ==
    /\ ticks < MaxTicks
    /\ \E d \in TimeSteps : now' = now + d
    /\ ticks' = ticks + 1
    /\ last' = NoCycle
    /\ UNCHANGED <<updateVars, versionVars, clusterVars, resourceVars, specCount, hostNetwork, lockHolder, pc,
                   stopCh, otherPc, lastOp, recorded, started>>

Next ==
    \/ HealthCheck
    \/ SetCount
    \/ MonLeavesQuorum
    \/ MonRejoinsQuorum
    \/ MonJoinsMap
    \/ Tick

Spec == Init /\ [][Next]_vars

\* ---- SpecOps: removeMon and failoverMon, with all they touch ---------------
InitOps ==
    /\ hostNetwork \in BOOLEAN
    /\ InitCluster
    /\ specCount = MaxCount
    /\ InitLoop
    /\ IdleUpdate
    /\ IdleVersion

\* the names a caller passes: a monitor of the membership or of the monitor
\* map, or once more the name of the call before
OpNames == clusterInfo \cup monMap \cup (Names \cap {lastOp.name})

\* c.removeMon(n), failing where f says
RemoveMonOp ==
    /\ \E n \in OpNames, f \in RemoveFaults :
          LET r == removeMon(Cur, n, f)
          IN  /\ clusterInfo' = r.c.Monitors
              /\ mapping' = r.c.mapping
              /\ deployments' = r.c.deployments
              /\ services' = r.c.services
              /\ savedConfig' = r.c.savedConfig
              /\ connConfig' = r.c.connConfig
              /\ monMap' = r.c.monMap
              /\ quorum' = r.c.quorum
              /\ lastOp' = [op |-> "removeMon", name |-> n, fail |-> f, rfail |-> "none",
                            err |-> r.err, depRes |-> r.depRes, svcRes |-> r.svcRes,
                            started |-> FALSE, removed |-> FALSE,
                            again |-> (lastOp.op = "removeMon" /\ lastOp.err = "nil"
                                       /\ lastOp.name = n)]
    /\ UNCHANGED <<updateVars, versionVars, maxMonID, monTimeoutList, specCount, hostNetwork, now, ticks,
                   lockHolder, pc, stopCh, otherPc, last, recorded, started>>

\* c.failoverMon(n), the provisioning failing where f says and the removal of
\* n where rf says
FailoverMonOp ==
    /\ maxMonID + 1 \in Names
    /\ \E n \in OpNames, f \in FailoverFaults, rf \in RemoveFaults :
          LET r == failoverMon(Cur, n, f, rf)
          IN  /\ f # "none" => rf = "none"
              /\ clusterInfo' = r.c.Monitors
              /\ mapping' = r.c.mapping
              /\ maxMonID' = r.c.maxMonID
              /\ deployments' = r.c.deployments
              /\ services' = r.c.services
              /\ savedConfig' = r.c.savedConfig
              /\ connConfig' = r.c.connConfig
              /\ monMap' = r.c.monMap
              /\ quorum' = r.c.quorum
              /\ recorded' = recorded \cup r.recorded
              /\ started' = started \cup r.started
              /\ lastOp' = [op |-> "failoverMon", name |-> n, fail |-> f, rfail |-> rf,
                            err |-> r.err, depRes |-> "skipped", svcRes |-> "skipped",
                            started |-> (r.started # {}), removed |-> r.removed,
                            again |-> FALSE]
    /\ UNCHANGED <<updateVars, versionVars, monTimeoutList, specCount, hostNetwork, now, ticks, lockHolder, pc,
                   stopCh, otherPc, last>>

NextOps ==
    \/ RemoveMonOp
    \/ FailoverMonOp

SpecOps == InitOps /\ [][NextOps]_vars

\* ---- SpecLoop: HealthChecker.Check next to another user of the lock ---------
\* HealthChecker.Check: case <-time.After(HealthCheckInterval)
TimerFires ==
    /\ pc = "select"
    /\ ~stopCh
    /\ pc' = "acquire"
    /\ UNCHANGED <<updateVars, versionVars, clusterVars, resourceVars, specCount, hostNetwork, now, ticks,
                   lockHolder, stopCh, otherPc, last, lastOp, recorded, started>>

\* HealthChecker.Check: case <-stopCh
StopReceived ==
    /\ pc = "select"
    /\ stopCh
    /\ pc' = "exited"
    /\ UNCHANGED <<updateVars, versionVars, clusterVars, resourceVars, specCount, hostNetwork, now, ticks,
                   lockHolder, stopCh, otherPc, last, lastOp, recorded, started>>

\* mutant: the cycle goes on without waiting for the lock to be free
acquireOrchestrationLock_NoWait ==
    /\ pc = "acquire"
    /\ lockHolder' = "health"
    /\ pc' = "body"
    /\ UNCHANGED <<updateVars, versionVars, clusterVars, resourceVars, specCount, hostNetwork, now, ticks,
                   stopCh, otherPc, last, lastOp, recorded, started>>

\* c.acquireOrchestrationLock()
acquireOrchestrationLock ==
    /\ pc = "acquire"
    /\ lockHolder = "none"
    /\ lockHolder' = "health"
    /\ pc' = "body"
    /\ UNCHANGED <<updateVars, versionVars, clusterVars, resourceVars, specCount, hostNetwork, now, ticks,
                   stopCh, otherPc, last, lastOp, recorded, started>>

\* the body of checkHealth, from reading spec.Mon.Count to the return statement
CheckHealth ==
    /\ pc = "body"
    /\ RunCheckHealth
    /\ pc' = "return"
    /\ UNCHANGED <<updateVars, versionVars, resourceVars, specCount, hostNetwork, now, ticks, lockHolder,
                   stopCh, otherPc, lastOp>>

\* mutant: Check returns when a cycle returns an error
releaseOrchestrationLock_ExitOnError ==
    /\ pc = "return"
    /\ lockHolder' = "none"
    /\ last' = NoCycle
    /\ pc' = IF last.err # "nil" THEN "exited" ELSE "select"
    /\ UNCHANGED <<updateVars, versionVars, clusterVars, resourceVars, specCount, hostNetwork, now, ticks,
                   stopCh, otherPc, lastOp, recorded, started>>

\* defer c.releaseOrchestrationLock(); Check logs the error and loops
releaseOrchestrationLock ==
    /\ pc = "return"
    /\ lockHolder' = "none"
    /\ last' = NoCycle
    /\ pc' = "select"
    /\ UNCHANGED <<updateVars, versionVars, clusterVars, resourceVars, specCount, hostNetwork, now, ticks,
                   stopCh, otherPc, lastOp, recorded, started>>

\* the owner of the checker closes stopCh
CloseStopCh ==
    /\ ~stopCh
    /\ stopCh' = TRUE
    /\ UNCHANGED <<updateVars, versionVars, clusterVars, resourceVars, specCount, hostNetwork, now, ticks,
                   lockHolder, pc, otherPc, last, lastOp, recorded, started>>

\* another orchestration of the same cluster takes the lock
OtherAcquire ==
    /\ otherPc = "idle"
    /\ lockHolder = "none"
    /\ lockHolder' = "other"
    /\ otherPc' = "critical"
    /\ UNCHANGED <<updateVars, versionVars, clusterVars, resourceVars, specCount, hostNetwork, now, ticks, pc,
                   stopCh, last, lastOp, recorded, started>>

\* and releases it
OtherRelease ==
    /\ otherPc = "critical"
    /\ lockHolder' = "none"
    /\ otherPc' = "idle"
    /\ UNCHANGED <<updateVars, versionVars, clusterVars, resourceVars, specCount, hostNetwork, now, ticks, pc,
                   stopCh, last, lastOp, recorded, started>>

NextLoop ==
    \/ TimerFires
    \/ StopReceived
    \/ acquireOrchestrationLock
    \/ CheckHealth
    \/ releaseOrchestrationLock
    \/ CloseStopCh
    \/ OtherAcquire
    \/ OtherRelease
    \/ MonLeavesQuorum
    \/ MonRejoinsQuorum
    \/ Tick

SpecLoop == Init /\ [][NextLoop]_vars

\* The goroutine of Check keeps running; a goroutine waiting for the mutex gets
\* it once it is free often enough (sync.Mutex hands over to a starving
\* waiter); the other user of the lock leaves its critical section.
FairLoop ==
    /\ SpecLoop
    /\ WF_vars(StopReceived)
    /\ SF_vars(acquireOrchestrationLock)
    /\ WF_vars(CheckHealth)
    /\ WF_vars(releaseOrchestrationLock)
    /\ WF_vars(OtherRelease)

\* ---- SpecUpdate: one call of UpdateStatefulSetAndWait -----------------------
InitUpdate ==
    /\ hostNetwork = FALSE
    /\ InitCluster
    /\ specCount = MaxCount
    /\ InitLoop
    /\ strategy \in Strategies
    /\ live \in Statuses
    /\ InitCall
    /\ IdleVersion

NextUpdate ==
    \/ GetOriginal
    \/ VerifyStop
    \/ Update
    \/ PollGet
    \/ VerifyContinue
    \/ Sleep
    \/ Controller

SpecUpdate == InitUpdate /\ [][NextUpdate]_vars

\* the call is not suspended for ever: a step it can take, it takes; the
\* collaborators and the callback return
FairUpdate ==
    /\ SpecUpdate
    /\ WF_vars(GetOriginal)
    /\ WF_vars(VerifyStop)
    /\ WF_vars(Update)
    /\ WF_vars(PollGet)
    /\ WF_vars(VerifyContinue)
    /\ WF_vars(Sleep)

\* ---- SpecVersion: AtLeast on versions drawn from Versions -------------------
InitVersion ==
    /\ hostNetwork = FALSE
    /\ InitCluster
    /\ specCount = MaxCount
    /\ InitLoop
    /\ IdleUpdate
    /\ v \in Versions
    /\ other \in Versions
    /\ third \in Versions
    /\ atLeast = NoCompare

\* v.AtLeast(other) and the calls it is compared with
Compare ==
    /\ ~atLeast.done
    /\ atLeast' = [done |-> TRUE,
                   vo |-> AtLeast(v, other),
                   ov |-> AtLeast(other, v),
                   vv |-> AtLeast(v, v),
                   ot |-> AtLeast(other, third),
                   vt |-> AtLeast(v, third)]
    /\ UNCHANGED <<monVars, updateVars, v, other, third>>

NextVersion == Compare

SpecVersion == InitVersion /\ [][NextVersion]_vars

TypeOK ==
    /\ clusterInfo \subseteq Names
    /\ monMap \subseteq Names
    /\ quorum \subseteq monMap
    /\ maxMonID \in Names
    /\ pc \in {"select", "acquire", "body", "return", "exited"}

\* ---- the claims ------------------------------------------------------------
\* a step that ran a cycle which got its status
CycleRan == last'.path \notin {"none", "status"}

ActsVia(l, via) == {i \in 1..Len(l.acts) : l.acts[i].via = via}

\* C1: a cycle performs at most one remediation (removeMon, failoverMon,
\* startMons), the removals of the scan counted.  Stated as claimed; the code
\* violates it.
C1_OneActionPerCycle == Len(last.acts) <= 1

\* C2: a cycle that reaches the scale-down step (every member reported, every
\* reported mon in quorum, more reported than desired) calls no removal there
\* and returns no error when the count is below 2 and 2 mons are reported;
\* otherwise the step calls removeMon exactly once, on a reported mon (the first
\* of the status), and that mon is gone from the monitor map and the membership
\* when the call succeeds.
C2_ScaleDownFloor ==
    [][(CycleRan /\ clusterInfo \subseteq monMap /\ quorum = monMap
            /\ Cardinality(monMap) > specCount)
        => IF specCount < 2 /\ Cardinality(monMap) = 2
           THEN ActsVia(last', "scaleDown") = {} /\ last'.err = "nil"
           ELSE /\ Cardinality(ActsVia(last', "scaleDown")) = 1
                /\ \A i \in ActsVia(last', "scaleDown") :
                      /\ i = Len(last'.acts)
                      /\ last'.acts[i].op = "removeMon"
                      /\ last'.acts[i].name \in monMap
                      /\ last'.acts[i].name = last'.first
                      /\ last'.acts[i].ok =>
                            /\ last'.acts[i].name \notin monMap'
                            /\ last'.acts[i].name \notin clusterInfo'
                            /\ last'.err = "nil"]_vars

C2_Witness == last.path = "floor" /\ last.err = "nil"

\* C3: no cycle that starts with at least 2 monitors in the monitor map leaves
\* fewer than 2.  Stated as claimed; the code violates it.
C3_FloorOnEveryPath ==
    [][(last'.path # "none" /\ Cardinality(monMap) >= 2) => Cardinality(monMap') >= 2]_vars

\* C4: a mon with an entry in monTimeoutList that a cycle's status reports in
\* quorum has no entry at the end of that cycle.  Stated as claimed; the code
\* violates it.
C4_EntryClearedOnRecovery ==
    [][CycleRan =>
          \A n \in Names :
             (monTimeoutList[n] # NoEntry /\ n \in quorum) => monTimeoutList'[n] = NoEntry]_vars

\* C5: maxMonID never decreases; a failoverMon whose new mon was confirmed
\* started adds exactly 1, and one that fails at the placement, the endpoint or
\* the start leaves it as it was.
C5_IdentityCounter ==
    [][/\ maxMonID' >= maxMonID
       /\ lastOp'.op = "failoverMon" =>
             /\ lastOp'.started = (lastOp'.err \notin {"assign", "endpoint", "start"})
             /\ lastOp'.started => DaemonName(maxMonID + 1) \in deployments' \cup {lastOp'.name}
             /\ IF lastOp'.started THEN maxMonID' = maxMonID + 1
                ELSE maxMonID' = maxMonID]_vars

C5_Witness == lastOp.op = "failoverMon" /\ lastOp.err = "start" /\ maxMonID = 1

\* C6: no identity that was ever recorded in the membership by one provisioning
\* is allocated again by a later one.  Stated as claimed; the code violates it.
C6_RecordedNeverAllocatedAgain ==
    \A i \in 1..Len(last.acts) : last.acts[i].alloc \cap last.seen = {}

\* C7: removeMon called again on the name it has just removed, no collaborator
\* failing, succeeds, meets "not found" at both deletions and changes nothing.
C7_RemovalIdempotent ==
    [][(lastOp'.op = "removeMon" /\ lastOp'.again /\ lastOp'.fail = "none")
        => /\ lastOp'.err = "nil"
           /\ lastOp'.depRes = "notFound"
           /\ lastOp'.svcRes = "notFound"
           /\ UNCHANGED <<clusterInfo, mapping, savedConfig, connConfig, deployments,
                          services, monMap, quorum, maxMonID>>]_vars

C7_Witness == lastOp.again /\ lastOp.fail = "none" /\ lastOp.err = "nil"

\* C8 as claimed: a cycle returns an error only when the status query failed.
\* The code violates it.
C8_OnlyQueryErrors == last.err # "nil" => last.path = "status"

\* C8 as amended: a cycle returns an error exactly when the status query
\* failed, or the startMons of the scale-up or the removeMon of the scale-down
\* failed; failures under failMon and in the scan are not returned.
C8_ReturnedErrors ==
    /\ last.err # "nil" <=>
          \/ last.path = "status"
          \/ /\ last.path \in {"scaleUp", "scaleDown"}
             /\ \E i \in ActsVia(last, last.path) : ~last.acts[i].ok
    /\ last.path \in {"timeout", "notFound", "floor", "noop"} => last.err = "nil"

C8_Witness ==
    /\ last.path \in {"timeout", "notFound"}
    /\ last.err = "nil"
    /\ \E i \in 1..Len(last.acts) : ~last.acts[i].ok

\* C9: Check returns only once stopCh is closed; a cycle, whatever it returns,
\* is followed by the select; closing stopCh does not interrupt a cycle, which
\* runs to its end; after the close no cycle starts and Check returns.
C9_LoopTermination ==
    /\ [](pc = "exited" => stopCh)
    /\ [][pc = "return" /\ pc' # pc => pc' = "select"]_vars
    /\ [][(pc \in {"acquire", "body", "return"} /\ ~stopCh /\ stopCh') => (pc' = pc)]_vars
    /\ [][stopCh => ~(pc = "select" /\ pc' = "acquire")]_vars
    /\ [][pc = "exited" => pc' = "exited"]_vars
    /\ (pc \in {"acquire", "body", "return"} ~> pc = "select")
    /\ (stopCh ~> pc = "exited")

C9_Witness == pc = "return" /\ last.err # "nil" /\ stopCh

C11_StrategyRejected ==
    strategy # RollingUpdateStatefulSetStrategyType =>
        /\ stopCalls = 0 /\ continueCalls = 0 /\ updateCalls = 0
        /\ getCalls = 0 /\ slept = 0
        /\ phase \in {"fetch", "failed"}
        /\ phase = "failed" => ~result.sts /\ result.err \in {"get", "strategy"}

C11_Witness ==
    /\ strategy # RollingUpdateStatefulSetStrategyType
    /\ phase = "failed"
    /\ result.err = "strategy"

\* C12: the poll sleeps sleepTime once after each read that did not meet the
\* completion condition; it calls verifyCallback("continue") only on a read
\* that met it; it ends with a failed read, with that call, or, after exactly
\* attempts reads and attempts sleeps and without that call, with "gave up
\* waiting"; and it always ends.
C12_PollGivesUp ==
    /\ [](result.err = "gaveUp" =>
             /\ getCalls = attempts
             /\ slept = attempts * sleepTime
             /\ continueCalls = 0
             /\ ~UpdateComplete(latest, original))
    /\ [](phase = "poll" => slept = sleepTime * getCalls /\ continueCalls = 0)
    /\ [](phase = "sleep" => slept = sleepTime * (getCalls - 1) /\ continueCalls = 0)
    /\ [](continueCalls > 0 => UpdateComplete(latest, original))
    /\ []((phase \in {"done", "failed"} /\ getCalls > 0) =>
             result.err \in {"get", "gaveUp", "verifyContinue", "nil"})
    /\ (phase = "poll" ~> phase \in {"done", "failed"})

C12_Witness ==
    /\ result.err = "gaveUp"
    /\ getCalls = 30
    /\ slept = 60

\* C13: the phases of a call follow fetch, verifyStop, apply, poll (with its
\* sleeps), verifyContinue, done, or end in failed; verifyCallback("stop") is
\* called only before Update; verifyCallback("continue") is called at most
\* once, after the one Update and on a read that met the completion condition;
\* the statefulset is returned, with no error, exactly at done, which is entered
\* only from a successful verifyCallback("continue"); a failed call returns nil
\* and an error.
C13_PhaseOrder ==
    /\ [][phase' # phase =>
            <<phase, phase'>> \in
                {<<"fetch", "verifyStop">>, <<"verifyStop", "apply">>, <<"apply", "poll">>,
                 <<"poll", "sleep">>, <<"sleep", "poll">>, <<"poll", "verifyContinue">>,
                 <<"verifyContinue", "done">>}
                \cup {<<p, "failed">> :
                         p \in {"fetch", "verifyStop", "apply", "poll", "sleep",
                                "verifyContinue"}}]_vars
    /\ [][stopCalls' > stopCalls => updateCalls = 0 /\ updateCalls' = 0]_vars
    /\ [](continueCalls <= 1 /\ updateCalls <= 1)
    /\ [][continueCalls' > continueCalls =>
            /\ phase = "verifyContinue"
            /\ updateCalls = 1
            /\ getCalls > 0
            /\ UpdateComplete(latest, original)]_vars
    /\ [][phase' = "done" /\ phase # "done" =>
            continueCalls' = continueCalls + 1 /\ result' = Success]_vars
    /\ [](result.sts <=> phase = "done")
    /\ [](phase = "done" => result.err = "nil" /\ continueCalls = 1)
    /\ [](phase = "failed" => ~result.sts /\ result.err \notin {"nil", "none"})
    /\ [](phase \notin {"done", "failed"} => result = NoResult)

C13_Witness ==
    /\ phase = "done"
    /\ result = Success
    /\ stopCalls > 1
    /\ getCalls > 1

\* C14: verifyCallback("stop") is called once and retried at most maxRetries
\* times; when every one of these calls fails the call fails, nothing having
\* been submitted or polled; the first call that succeeds is the last one and
\* is followed by Update.
C14_StopRetries ==
    /\ [](stopCalls <= maxRetries + 1)
    /\ [](result.err = "verifyStop" =>
             stopCalls = maxRetries + 1 /\ updateCalls = 0 /\ getCalls = 0)
    /\ [][(phase = "verifyStop" /\ phase' = "failed") =>
             (stopCalls' = maxRetries + 1 /\ result'.err = "verifyStop")]_vars
    /\ [][(phase = "verifyStop" /\ phase' = "apply") =>
             (stopCalls' = stopCalls + 1 /\ stopCalls' <= maxRetries + 1)]_vars
    /\ [][phase # "verifyStop" => stopCalls' = stopCalls]_vars
    /\ [][(phase = "verifyStop" /\ phase' = "apply") => stopErr' = "nil"]_vars
    /\ [][(phase = "verifyStop" /\ phase' = "verifyStop" /\ stopCalls' # stopCalls) =>
             (stopErr' = "error" /\ stopCalls' <= maxRetries)]_vars
    /\ [](phase = "failed" /\ result.err = "verifyStop" => stopErr = "error")
    /\ [](updateCalls > 0 => stopCalls > 0 /\ stopErr = "nil")

C14_Witness ==
    /\ result.err = "verifyStop"
    /\ stopCalls = 6
    /\ updateCalls = 0

\* the named releases, oldest first
Releases == <<Luminous, Mimic, Nautilus>>
ReleaseRank(ver) == CHOOSE k \in 1..Len(Releases) : Releases[k] = ver

\* C15: v.AtLeast(other) is v.Major >= other.Major whatever the minors and the
\* patches; it is reflexive, transitive and total; on the named releases it is
\* true exactly when the receiver is the same or a later release.
C15_AtLeast ==
    atLeast.done =>
        /\ atLeast.vo = (v.Major >= other.Major)
        /\ atLeast.ov = (other.Major >= v.Major)
        /\ atLeast.vv
        /\ (atLeast.vo /\ atLeast.ot) => atLeast.vt
        /\ atLeast.vo \/ atLeast.ov
        /\ (v \in {Luminous, Mimic, Nautilus} /\ other \in {Luminous, Mimic, Nautilus})
              => atLeast.vo = (ReleaseRank(v) >= ReleaseRank(other))

C15_Witness ==
    /\ atLeast.done
    /\ atLeast.vo
    /\ v.Major = other.Major
    /\ v.Minor < other.Minor

\* C16: a failoverMon that fails at the placement, the endpoint or the start
\* has not called removeMon, and the old mon is where it was: in the
\* membership, the monitor map, the quorum and its deployment; removeMon is
\* called only once the replacement has been recorded and its start confirmed;
\* failoverMon returns nil only when the start succeeded and removeMon returned
\* nil, and then the old mon is out of the membership and the monitor map.
C16_RemoveAfterStart ==
    [][lastOp'.op = "failoverMon" =>
          /\ lastOp'.err \in {"assign", "endpoint", "start"} =>
                /\ ~lastOp'.removed
                /\ lastOp'.name \in clusterInfo => lastOp'.name \in clusterInfo'
                /\ lastOp'.name \in monMap => lastOp'.name \in monMap'
                /\ lastOp'.name \in quorum => lastOp'.name \in quorum'
                /\ lastOp'.name \in deployments => lastOp'.name \in deployments'
          /\ lastOp'.removed =>
                /\ lastOp'.started
                /\ DaemonName(maxMonID + 1) \in recorded'
                /\ lastOp'.err \in {"nil"} \cup (RemoveFaults \ {"none"})
          /\ lastOp'.err = "nil" =>
                /\ lastOp'.started
                /\ lastOp'.removed
                /\ lastOp'.name \notin clusterInfo'
                /\ lastOp'.name \notin monMap']_vars

C16_Witness ==
    /\ lastOp.op = "failoverMon"
    /\ lastOp.err = "nil"
    /\ lastOp.removed
    /\ lastOp.name \notin clusterInfo
    /\ maxMonID \in monMap

\* C17: a removeMon whose removal from quorum fails returns that error and
\* leaves the membership, the node assignment, the services and both config
\* files as they were; a deletion of the deployment or of the service that
\* finds nothing does not abort: removeMon returns the deployment or service
\* error only on another API error, and nil when no collaborator fails.
C17_QuorumRemovalFatal ==
    [][lastOp'.op = "removeMon" =>
          /\ lastOp'.fail = "quorum" =>
                /\ lastOp'.err = "quorum"
                /\ UNCHANGED <<clusterInfo, mapping, services, savedConfig, connConfig,
                               monMap, quorum>>
          /\ lastOp'.fail = "none" => lastOp'.err = "nil"
          /\ lastOp'.err = "deployment" => lastOp'.depRes = "error"
          /\ lastOp'.err = "service" => lastOp'.svcRes = "error"]_vars

C17_Witness ==
    /\ lastOp.op = "removeMon"
    /\ lastOp.fail = "quorum"
    /\ lastOp.err = "quorum"
    /\ lastOp.depRes = "notFound"
    /\ lastOp.name \in clusterInfo
    /\ lastOp.name \in savedConfig

\* C18: when removeMon or failoverMon has returned nil, the persisted
\* membership and the connection config both equal the membership, and the
\* removed mon is in none of the three.
C18_WriteAfterMutate ==
    (lastOp.op \in {"removeMon", "failoverMon"} /\ lastOp.err = "nil") =>
        /\ savedConfig = clusterInfo
        /\ connConfig = clusterInfo
        /\ lastOp.name \notin clusterInfo
        /\ lastOp.name \notin savedConfig
        /\ lastOp.name \notin connConfig

C18_Witness ==
    /\ lastOp.op = "failoverMon"
    /\ lastOp.err = "nil"
    /\ maxMonID \in savedConfig
    /\ maxMonID \in connConfig
    /\ lastOp.name \notin savedConfig

\* C19: a cycle whose scan dispatched no timed-out mon and that finds a member
\* missing from the status calls failMon for exactly one missing member, with
\* no timeout consulted, as its last call, and returns nil without a scale-up
\* or a scale-down, whatever the counts.
C19_MissingMemberDispatched ==
    [][(CycleRan /\ last'.path # "timeout" /\ clusterInfo \ monMap # {}) =>
          /\ last'.path = "notFound"
          /\ last'.err = "nil"
          /\ Cardinality(ActsVia(last', "notFound")) = 1
          /\ \A k \in ActsVia(last', "notFound") :
                /\ k = Len(last'.acts)
                /\ last'.acts[k].name \in clusterInfo \ monMap
                /\ last'.acts[k].op =
                      IF Cardinality(clusterInfo) > specCount THEN "removeMon"
                      ELSE "failoverMon"
          /\ ActsVia(last', "scaleUp") = {}
          /\ ActsVia(last', "scaleDown") = {}]_vars

C19_Witness ==
    /\ last.path = "notFound"
    /\ Len(last.acts) = 1
    /\ last.acts[1].op = "failoverMon"
    /\ last.acts[1].ok
    /\ Cardinality(monMap) < specCount

\* C20: a cycle whose scan dispatched nothing and that misses no member starts
\* the scale-up whenever fewer mons are in quorum than desired.  Stated as
\* claimed; the code counts the mons of the monitor map.
C20_ScaleUpOnQuorumCount ==
    [][(CycleRan /\ last'.path # "timeout" /\ clusterInfo \subseteq monMap
            /\ Cardinality(quorum) < specCount)
        => last'.path = "scaleUp" /\ ActsVia(last', "scaleUp") # {}]_vars

\* C20, amended: such a cycle starts the scale-up exactly when fewer mons are
\* in the monitor map of the status than desired, whether in quorum or not; it
\* then calls startMons once, as its only call, and returns what startMons
\* returns.
C20_ScaleUpOnMapCount ==
    [][(CycleRan /\ last'.path # "timeout" /\ clusterInfo \subseteq monMap) =>
          /\ (last'.path = "scaleUp") <=> (Cardinality(monMap) < specCount)
          /\ last'.path = "scaleUp" =>
                /\ Len(last'.acts) = 1
                /\ last'.acts[1].op = "startMons"
                /\ last'.acts[1].via = "scaleUp"
                /\ last'.acts[1].ok <=> (last'.err = "nil")
          /\ last'.path # "scaleUp" => ActsVia(last', "scaleUp") = {}]_vars

C20_Witness ==
    /\ last.path = "scaleUp"
    /\ Len(last.acts) = 1
    /\ last.acts[1].ok
    /\ quorum # monMap

\* the reported mons out of quorum whose entry in monTimeoutList is at least
\* as old as age when a cycle starts
OutFor(age) ==
    {n \in monMap \ quorum :
        monTimeoutList[n] # NoEntry /\ now - monTimeoutList[n] >= age}

\* the mons a cycle dispatched to failMon from the scan
Dispatched(l) == {l.acts[k].name : k \in ActsVia(l, "timeout")}

\* C21: a reported mon out of quorum is dispatched by the cycle that finds its
\* entry at least MonOutTimeout old, the age MonOutTimeout included, and by no
\* cycle that finds it younger or creates it.  Stated as claimed; the code
\* waits at the age MonOutTimeout and dispatches one mon per cycle.
C21_DispatchedAtTimeout ==
    [][CycleRan =>
          \A n \in monMap \ quorum :
             (n \in Dispatched(last')) <=> (n \in OutFor(MonOutTimeout))]_vars

\* C21, amended: a cycle dispatches from its scan at most one mon, as its last
\* call and then returns nil; that mon is reported, out of quorum and has an
\* entry older than MonOutTimeout that an earlier cycle created; a cycle that
\* finds such a mon dispatches one of them, the only one when there is one; at
\* the age MonOutTimeout or below, and in the cycle that creates the entry, a
\* mon is not dispatched.
C21_DispatchedPastTimeout ==
    [][CycleRan =>
          /\ Dispatched(last') \subseteq OutFor(MonOutTimeout + 1)
          /\ Cardinality(ActsVia(last', "timeout")) <= 1
          /\ (OutFor(MonOutTimeout + 1) # {}) <=> (last'.path = "timeout")
          /\ (last'.path = "timeout") <=> (ActsVia(last', "timeout") # {})
          /\ \A k \in ActsVia(last', "timeout") :
                /\ k = Len(last'.acts)
                /\ last'.err = "nil"
                /\ last'.acts[k].op =
                      IF Cardinality(monMap) > specCount THEN "removeMon"
                      ELSE "failoverMon"
          /\ \A n \in monMap \ quorum :
                monTimeoutList[n] = NoEntry => n \notin Dispatched(last')]_vars

C21_Witness ==
    /\ last.path = "timeout"
    /\ \E n \in Dispatched(last) :
          /\ monTimeoutList[n] # NoEntry
          /\ now - monTimeoutList[n] = MonOutTimeout + 1

\* the mons a cycle removed in the scan as unknown to the membership
RemovedInScan(l) == {l.acts[k].name : k \in ActsVia(l, "scan")}

\* C22: the scan removes a reported mon that is unknown to the membership
\* exactly when that mon is in quorum and more mons are in quorum than desired
\* (in a cycle whose scan got to every reported mon); the scan removes nothing
\* else.  Stated as claimed; the code counts the mons of the monitor map.
C22_ScanRemovalOnQuorumCount ==
    [][CycleRan =>
          /\ RemovedInScan(last') \subseteq
                {n \in (monMap \ clusterInfo) \cap quorum : Cardinality(quorum) > specCount}
          /\ last'.path # "timeout" =>
                \A n \in monMap \ clusterInfo :
                   (n \in quorum /\ Cardinality(quorum) > specCount)
                      => n \in RemovedInScan(last')]_vars

\* C22, amended: the scan removes a reported mon that is unknown to the
\* membership exactly when that mon is in quorum and more mons are in the
\* monitor map of the status than desired, in quorum or not (in a cycle whose
\* scan got to every reported mon); it calls removeMon once for each such mon
\* and for no other mon.
C22_ScanRemovalOnMapCount ==
    [][CycleRan =>
          /\ RemovedInScan(last') \subseteq
                {n \in (monMap \ clusterInfo) \cap quorum : Cardinality(monMap) > specCount}
          /\ Cardinality(ActsVia(last', "scan")) = Cardinality(RemovedInScan(last'))
          /\ \A k \in ActsVia(last', "scan") : last'.acts[k].op = "removeMon"
          /\ last'.path # "timeout" =>
                \A n \in monMap \ clusterInfo :
                   (n \in quorum /\ Cardinality(monMap) > specCount)
                      => n \in RemovedInScan(last')]_vars

C22_Witness ==
    /\ last.path # "timeout"
    /\ RemovedInScan(last) # {}
    /\ RemovedInScan(last) \cap monMap = {}
    /\ monMap \ quorum # {}
    /\ Cardinality(quorum) < specCount

\* C23: every entry of monTimeoutList names a mon of the membership or of the
\* monitor map; a mon that removeMon or failoverMon took out of both has no
\* entry.  Stated as claimed; the code violates it.
C23_NoEntryLeftBehind ==
    \A n \in Names : monTimeoutList[n] # NoEntry => n \in clusterInfo \cup monMap

\* a step that ran a cycle in which every reported mon was in quorum and no
\* call of the cycle failed
HealthyCycleRan ==
    /\ CycleRan
    /\ quorum = monMap
    /\ \A k \in 1..Len(last'.acts) : last'.acts[k].ok

\* C24: a cycle in which every reported mon is in quorum and nothing fails
\* takes at most (reported count - desired count) mons out of the monitor map
\* and does not leave fewer mons than desired when it found that many; its
\* scale-down removes no mon after the scan has removed one.  Stated as
\* claimed; the code violates it.
C24_RemovalsWithinSurplus ==
    [][HealthyCycleRan =>
          /\ Cardinality(monMap \ monMap') <=
                (IF Cardinality(monMap) > specCount THEN Cardinality(monMap) - specCount
                 ELSE 0)
          /\ Cardinality(monMap) >= specCount => Cardinality(monMap') >= specCount
          /\ RemovedInScan(last') # {} =>
                {last'.acts[k].name : k \in ActsVia(last', "scaleDown")}
                   \subseteq RemovedInScan(last')]_vars

====
